---- MODULE Spec2Model ----
(***************************************************************************)
(* DocProc: the document ingestion, query and tagging layer.               *)
(*                                                                         *)
(* The backend's upload handler, extraction executor, pagination and tag   *)
(* schema are transcribed from the code excerpts of FINDINGS.md; the       *)
(* parts of the backend the report does not quote (row creation, status    *)
(* update, stored-name derivation, delete, tag service) follow spec.md.    *)
(* The frontend (api.js, App, UploadForm, DocumentList, DocumentDetail,    *)
(* tagColors) is transcribed from its sources: one specification for the   *)
(* documents page, one for the detail page, one for the tag colours.       *)
(***************************************************************************)
EXTENDS Integers, Sequences, FiniteSets, TLC

\* ------------------------------------------------------------------ bounds
MaxDocs == 2
MaxPages == 1
MaxCalls == 3
MaxScan == 3

\* ------------------------------------------------------- program constants
MAX_FILE_SIZE == 50 * 1024 * 1024
ALLOWED_EXTENSIONS == {<<".", "pdf">>}
max_workers == 4
DefaultLimit == 100

VARIABLES
    docs,           \* documents table: id -> row
    nextId,         \* next surrogate key of documents
    files,          \* upload directory: path -> [size, owner]
    jobs,           \* upload requests awaiting extraction: id -> job
    invoked,        \* sizes of the files the extraction collaborator was invoked on
    resp,           \* the last response sent to a client
    tags,           \* tags table: id -> [name]
    nextTagId,      \* next surrogate key of tags
    document_tags,  \* association table: set of <<document_id, tag_id>>
    calls,          \* concurrent getOrCreate calls: call -> [raw, name, pc, result, how]
    app,            \* App: [refreshTrigger]
    uploadForm,     \* UploadForm: [file, uploading, error, success]
    documentList,   \* DocumentList: [documents, loading, error, availableTags, selectedTag, deletingId]
    documentDetail, \* DocumentDetail: [id, document, loading, error, addingTag]
    net,            \* the frontend's requests: request -> [kind, url, state, body, ...]
    hashRun         \* a run of hashString / getTagColor: [str, i, hash, pc, ...]

ingestVars == <<docs, nextId, files, jobs, invoked>>
tagVars == <<tags, nextTagId, document_tags>>
uiVars == <<app, uploadForm, documentList, documentDetail, net, hashRun>>
vars == <<docs, nextId, files, jobs, invoked, resp, tags, nextTagId, document_tags, calls,
          app, uploadForm, documentList, documentDetail, net, hashRun>>

NULL == <<>>
Some(v) == <<v>>

\* ------------------------------------------------------------- file names
\* A file name is a sequence of tokens: single characters, and the letter
\* runs "pdf" / "PDF" (which hold no dot and no separator).
Contains(s, sub) ==
    \E i \in 1..(Len(s) - Len(sub) + 1) : SubSeq(s, i, i + Len(sub) - 1) = sub

RECURSIVE SplitOn(_, _)
SplitOn(s, sep) ==
    IF \A i \in 1..Len(s) : s[i] # sep
    THEN <<s>>
    ELSE LET i == CHOOSE k \in 1..Len(s) : s[k] = sep /\ \A j \in 1..(k - 1) : s[j] # sep
         IN  <<SubSeq(s, 1, i - 1)>> \o SplitOn(SubSeq(s, i + 1, Len(s)), sep)

\* pathlib drops empty components and "." components.
KeptPart(c) == c # <<>> /\ c # <<".">>

PathParts(s) == SelectSeq(SplitOn(s, "/"), KeptPart)

\* Path(file.filename).name: the last component, "" when there is none.
PathName(s) ==
    IF PathParts(s) = <<>> THEN <<>> ELSE PathParts(s)[Len(PathParts(s))]

\* Path(file.filename).suffix: from the last dot of the name, unless that dot
\* is the name's first or last character.
PathSuffix(s) ==
    LET name == PathName(s)
        dots == {i \in 1..Len(name) : name[i] = "."}
    IN  IF dots = {} THEN <<>>
        ELSE LET i == CHOOSE k \in dots : \A j \in dots : j <= k
             IN  IF 1 < i /\ i < Len(name) THEN SubSeq(name, i, Len(name)) ELSE <<>>

\* str.lower() on the tokens in use.
LowerTok(c) ==
    CASE c = "PDF" -> "pdf"
      [] c = "F" -> "f"
      [] c = "O" -> "o"
      [] OTHER -> c

Lower(s) == [i \in 1..Len(s) |-> LowerTok(s[i])]

\* ".." in safe_filename or "/" in safe_filename or "\\" in safe_filename
HasTraversalOnlySeparators(safe) ==
    Contains(safe, <<"/">>) \/ Contains(safe, <<"\\">>)

HasTraversal(safe) ==
    \/ Contains(safe, <<".", ".">>)
    \/ Contains(safe, <<"/">>)
    \/ Contains(safe, <<"\\">>)

\* len(content) > MAX_FILE_SIZE
TooLargeOffByOne(size) == size > MAX_FILE_SIZE + 1

TooLarge(size) == size > MAX_FILE_SIZE

Verdict(code, detail) == [code |-> code, detail |-> detail]

\* The validation sequence of upload_document, in the handler's order.
ValidateUpload(name, size) ==
    IF name = <<>>
    THEN Verdict(400, "No filename provided")
    ELSE IF Lower(PathSuffix(name)) \notin ALLOWED_EXTENSIONS
    THEN Verdict(400, "Only PDF files are allowed")
    ELSE IF HasTraversal(PathName(name))
    THEN Verdict(400, "Invalid filename")
    ELSE IF TooLarge(size)
    THEN Verdict(413, "File size exceeds")
    ELSE Verdict(200, "OK")

\* The stored name: identifier-derived, followed by the sanitized name.
StoredNameRaw(id, safe) == safe

StoredName(id, safe) == <<"id", ToString(id), "_">> \o safe

\* ------------------------------------------------------------- responses
\* req: the row created for the request (none when validation rejected it);
\* doc: the document returned in the body.
UploadResp(code, detail, name, size, req, doc) ==
    [op |-> "upload", code |-> code, detail |-> detail,
     name |-> name, size |-> size, req |-> req, doc |-> doc]

DeleteResp(code, doc) ==
    [op |-> "delete", code |-> code, detail |-> IF code = 200 THEN "OK" ELSE "Not found",
     name |-> <<>>, size |-> 0, req |-> {}, doc |-> doc]

NoResp ==
    [op |-> "none", code |-> 0, detail |-> "", name |-> <<>>, size |-> 0,
     req |-> {}, doc |-> {}]

\* ------------------------------------------------------- function helpers
Without(f, k) == [x \in DOMAIN f \ {k} |-> f[x]]

With(f, k, v) == [x \in DOMAIN f \cup {k} |-> IF x = k THEN v ELSE f[x]]

\* ------------------------------------------------------------------ inputs
UploadNames ==
    { <<>>,                                     \* no filename
      <<"a", ".", "pdf">>,                      \* a.pdf
      <<"a", ".", "a">>,                        \* a.a (not a pdf)
      <<".", "pdf">>,                           \* .pdf (no suffix)
      <<".", ".", "/", "a", ".", "pdf">>,       \* ../a.pdf
      <<"a", "/", ".", ".">>,                   \* a/..
      <<"a", ".", ".", "PDF">>,                 \* a..PDF
      <<"a", "\\", "a", ".", "pdf">>,           \* a\a.pdf
      <<"a", "/", "a", ".", "a">> }             \* a/a.a

UploadSizes == {MAX_FILE_SIZE, MAX_FILE_SIZE + 1}

Texts == {"hello world"}

PageCounts == 1..MaxPages

Ids == 1..MaxDocs

\* ------------------------------------------------------------------- init
\* The components' useState defaults; no request sent yet.
AppInit == [refreshTrigger |-> 0]

UploadFormInit == [file |-> NULL, uploading |-> FALSE, error |-> NULL, success |-> FALSE]

DocumentListInit ==
    [documents |-> {}, loading |-> TRUE, error |-> NULL, availableTags |-> {},
     selectedTag |-> NULL, deletingId |-> NULL]

DocumentDetailInit ==
    [id |-> 0, document |-> NULL, loading |-> TRUE, error |-> NULL, addingTag |-> FALSE]

HashIdle ==
    [str |-> <<>>, i |-> 0, hash |-> [hi |-> 0, lo |-> 0], pc |-> "idle",
     result |-> [neg |-> FALSE, mag |-> [hi |-> 0, lo |-> 0]], colorIndex |-> 0,
     color |-> "", before |-> NULL]

\* No page is open: the backend alone.
FrontendClosed ==
    /\ app = AppInit
    /\ uploadForm = UploadFormInit
    /\ documentList = DocumentListInit
    /\ documentDetail = DocumentDetailInit
    /\ net = <<>>
    /\ hashRun = HashIdle

Init ==
    /\ docs = <<>>
    /\ nextId = 1
    /\ files = <<>>
    /\ jobs = <<>>
    /\ invoked = {}
    /\ resp = NoResp
    /\ tags = <<>>
    /\ nextTagId = 1
    /\ document_tags = {}
    /\ calls = <<>>
    /\ FrontendClosed

\* ------------------------------------------------------ ingestion pipeline
\* The row created at upload acceptance.
PendingRow(name, size, stored) ==
    [filename |-> name, stored |-> stored, file_size |-> size,
     page_count |-> NULL, content |-> NULL, status |-> "pending"]

\* The row update after a successful extraction.
ProcessedRowCompleted(row, text, pages) ==
    [row EXCEPT !.content = Some(text), !.page_count = Some(pages),
                !.status = "completed"]

ProcessedRow(row, text, pages) ==
    [row EXCEPT !.content = Some(text), !.page_count = Some(pages),
                !.status = "processed"]

\* upload_document up to the await of the extraction: validation, then the
\* pending row, the file write and the hand-over to the executor.
UploadDocument(name, size) ==
    LET v == ValidateUpload(name, size)
        stored == StoredName(nextId, PathName(name))
    IN  IF v.code # 200
        THEN /\ resp' = UploadResp(v.code, v.detail, name, size, {}, {})
             /\ UNCHANGED <<ingestVars, tagVars, calls, uiVars>>
        ELSE /\ nextId <= MaxDocs
             /\ docs' = With(docs, nextId, PendingRow(name, size, stored))
             /\ files' = With(files, stored, [size |-> size, owner |-> nextId])
             /\ jobs' = With(jobs, nextId,
                             [state |-> "queued", file_path |-> stored,
                              filename |-> name, size |-> size])
             /\ nextId' = nextId + 1
             /\ UNCHANGED <<invoked, resp, tagVars, calls, uiVars>>

\* ThreadPoolExecutor(max_workers=4): a queued job starts when a worker is free.
WorkerFreeNoWorkers ==
    Cardinality({d \in DOMAIN jobs : jobs[d].state = "running"}) < 0

WorkerFree ==
    Cardinality({d \in DOMAIN jobs : jobs[d].state = "running"}) < max_workers

\* loop.run_in_executor(executor, _extract_text_sync, file_path)
StartExtract(d) ==
    /\ d \in DOMAIN jobs
    /\ jobs[d].state = "queued"
    /\ WorkerFree
    /\ jobs' = [jobs EXCEPT ![d].state = "running"]
    /\ invoked' = invoked \cup {jobs[d].size}
    /\ UNCHANGED <<docs, nextId, files, resp, tagVars, calls, uiVars>>

\* text_content, page_count = await extract_text_from_pdf(file_path): success.
ExtractOk(d, text, pages) ==
    /\ d \in DOMAIN jobs
    /\ jobs[d].state = "running"
    /\ jobs' = Without(jobs, d)
    /\ IF d \in DOMAIN docs
       THEN /\ docs' = [docs EXCEPT ![d] = ProcessedRow(docs[d], text, pages)]
            /\ resp' = UploadResp(200, "OK", jobs[d].filename, jobs[d].size, {d}, {d})
       ELSE /\ docs' = docs
            /\ resp' = UploadResp(404, "Not found", jobs[d].filename, jobs[d].size, {d}, {})
    /\ UNCHANGED <<nextId, files, invoked, tagVars, calls, uiVars>>

\* except Exception: os.remove(file_path); raise HTTPException(400, ...).
\* os.remove of a path that is gone raises inside the handler: a 500.
RemoveOnFailureKeepsFile(fs, path) == fs

RemoveOnFailure(fs, path) == Without(fs, path)

ExtractFail(d) ==
    /\ d \in DOMAIN jobs
    /\ jobs[d].state = "running"
    /\ jobs' = Without(jobs, d)
    /\ IF jobs[d].file_path \in DOMAIN files
       THEN /\ files' = RemoveOnFailure(files, jobs[d].file_path)
            /\ resp' = UploadResp(400, "Failed to process PDF",
                                  jobs[d].filename, jobs[d].size, {d}, {})
       ELSE /\ files' = files
            /\ resp' = UploadResp(500, "Internal Server Error",
                                  jobs[d].filename, jobs[d].size, {d}, {})
    /\ UNCHANGED <<docs, nextId, invoked, tagVars, calls, uiVars>>

\* ---------------------------------------------------------------- delete
\* ForeignKey("documents.id", ondelete="CASCADE") on document_tags.document_id
CascadeKeepsAssociations(dt, d) == dt

CascadeDocumentTags(dt, d) == {p \in dt : p[1] # d}

\* delete(id): the row, its associations (cascade) and its on-disk file.
DeleteDocument(d) ==
    IF d \notin DOMAIN docs
    THEN /\ resp' = DeleteResp(404, {})
         /\ UNCHANGED <<ingestVars, tagVars, calls, uiVars>>
    ELSE /\ docs' = Without(docs, d)
         /\ document_tags' = CascadeDocumentTags(document_tags, d)
         /\ files' = Without(files, docs[d].stored)
         /\ resp' = DeleteResp(200, {d})
         /\ UNCHANGED <<nextId, jobs, invoked, tags, nextTagId, calls, uiVars>>

\* ------------------------------------------------------------------- next
Extract(d) ==
    \/ StartExtract(d)
    \/ \E text \in Texts, pages \in PageCounts : ExtractOk(d, text, pages)
    \/ ExtractFail(d)

Next ==
    \/ \E name \in UploadNames, size \in UploadSizes : UploadDocument(name, size)
    \/ \E d \in Ids : Extract(d)
    \/ \E d \in Ids : DeleteDocument(d)

Spec == Init /\ [][Next]_vars

\* The executor runs every submitted job, and the extraction returns or raises.
FairSpec == Spec /\ \A d \in Ids : WF_vars(Extract(d))

\* ------------------------------------------------------------ tag service
\* newTag.trim(): leading and trailing blanks removed.
RECURSIVE Trim(_)
Trim(s) ==
    IF s = <<>> THEN s
    ELSE IF Head(s) = " " THEN Trim(Tail(s))
    ELSE IF s[Len(s)] = " " THEN Trim(SubSeq(s, 1, Len(s) - 1))
    ELSE s

\* Case-insensitive tag names: the canonical form is trimmed and lower-cased.
CanonCaseSensitive(name) == Trim(name)

Canon(name) == Lower(Trim(name))

\* The lookup of getOrCreate: names are stored and probed in canonical form.
TagsNamed(tg, n) == {t \in DOMAIN tg : tg[t].name = n}

\* name = Column(String(50), unique=True): a second row of that name conflicts.
UniqueViolationNever(tg, n) == FALSE

UniqueViolation(tg, n) == \E t \in DOMAIN tg : tg[t].name = n

\* The conflict-safe insert: on a conflict the existing row is returned.
\* The result: the table, the next key, the tag and how it was obtained.
InsertTag(tg, next, n) ==
    IF UniqueViolation(tg, n)
    THEN [tags |-> tg, next |-> next, how |-> "conflict",
          tag |-> CHOOSE t \in DOMAIN tg : tg[t].name = n]
    ELSE [tags |-> With(tg, next, [name |-> n]), next |-> next + 1,
          how |-> "inserted", tag |-> next]

\* getOrCreate(name) run without interruption: look up, else insert.
GetOrCreate(tg, next, name) ==
    IF TagsNamed(tg, Canon(name)) # {}
    THEN [tags |-> tg, next |-> next, how |-> "found",
          tag |-> CHOOSE t \in TagsNamed(tg, Canon(name)) : TRUE]
    ELSE InsertTag(tg, next, Canon(name))

\* attach: for each name, get-or-create, then link unless already linked.
RECURSIVE AttachAll(_, _, _, _, _)
AttachAll(tg, next, dt, d, names) ==
    IF names = <<>>
    THEN [tags |-> tg, next |-> next, dt |-> dt]
    ELSE LET r == GetOrCreate(tg, next, Head(names))
         IN  AttachAll(r.tags, r.next, dt \cup {<<d, r.tag>>}, d, Tail(names))

\* listAll(): every tag.
ListAll == {[id |-> t, name |-> tags[t].name] : t \in DOMAIN tags}

TagResp(op, code, doc, names) ==
    [op |-> op, code |-> code, doc |-> doc, names |-> names]

\* POST /documents/{id}/tags {tag_names}: 404 for a missing document, 400 for
\* a name that is empty once trimmed, else attach every name.
AddTagsToDocument(d, names) ==
    IF d \notin DOMAIN docs
    THEN /\ resp' = TagResp("attach", 404, {}, names)
         /\ UNCHANGED <<ingestVars, tagVars, calls, uiVars>>
    ELSE IF \E i \in 1..Len(names) : Trim(names[i]) = <<>>
    THEN /\ resp' = TagResp("attach", 400, {}, names)
         /\ UNCHANGED <<ingestVars, tagVars, calls, uiVars>>
    ELSE LET r == AttachAll(tags, nextTagId, document_tags, d, names)
         IN  /\ tags' = r.tags
             /\ nextTagId' = r.next
             /\ document_tags' = r.dt
             /\ resp' = TagResp("attach", 200, {d}, names)
             /\ UNCHANGED <<ingestVars, calls, uiVars>>

\* DELETE /documents/{id}/tags/{tagId}: 404 when the association is missing.
RemoveTagFromDocument(d, t) ==
    IF <<d, t>> \notin document_tags
    THEN /\ resp' = TagResp("detach", 404, {}, <<>>)
         /\ UNCHANGED <<ingestVars, tagVars, calls, uiVars>>
    ELSE /\ document_tags' = document_tags \ {<<d, t>>}
         /\ resp' = TagResp("detach", 200, {d}, <<>>)
         /\ UNCHANGED <<ingestVars, tags, nextTagId, calls, uiVars>>

TagNameInputs ==
    { <<"F", "o">>,                 \* "Fo"
      <<"f", "o">>,                 \* "fo"
      <<" ", "F", "O", " ">>,       \* " FO "
      <<"b">>,                      \* "b"
      <<" ">> }                     \* blank

AttachLists ==
    {<<n>> : n \in TagNameInputs} \cup {<<n, m>> : n \in TagNameInputs, m \in TagNameInputs}

PlainName == <<"a", ".", "pdf">>

TagNext ==
    \/ UploadDocument(PlainName, MAX_FILE_SIZE)
    \/ \E d \in Ids, names \in AttachLists : AddTagsToDocument(d, names)
    \/ \E d \in Ids, t \in DOMAIN tags : RemoveTagFromDocument(d, t)
    \/ \E d \in Ids : DeleteDocument(d)

TagSpec == Init /\ [][TagNext]_vars

\* ------------------------------------------- concurrent getOrCreate calls
\* A call normalizes its name, looks the tag up, and inserts when the lookup
\* found nothing; other calls may run between its lookup and its insert.
GocBegin(c, raw) ==
    /\ c \notin DOMAIN calls
    /\ c = Cardinality(DOMAIN calls) + 1
    /\ calls' = With(calls, c,
                     [raw |-> raw, name |-> Canon(raw), result |-> {}, how |-> "",
                      pc |-> IF Trim(raw) = <<>> THEN "rejected" ELSE "lookup"])
    /\ UNCHANGED <<ingestVars, resp, tagVars, uiVars>>

GocLookup(c) ==
    /\ c \in DOMAIN calls
    /\ calls[c].pc = "lookup"
    /\ IF TagsNamed(tags, calls[c].name) # {}
       THEN calls' = [calls EXCEPT ![c].pc = "done", ![c].how = "found",
                                   ![c].result = TagsNamed(tags, calls[c].name)]
       ELSE calls' = [calls EXCEPT ![c].pc = "insert"]
    /\ UNCHANGED <<ingestVars, resp, tagVars, uiVars>>

GocInsert(c) ==
    /\ c \in DOMAIN calls
    /\ calls[c].pc = "insert"
    /\ LET r == InsertTag(tags, nextTagId, calls[c].name)
       IN  /\ tags' = r.tags
           /\ nextTagId' = r.next
           /\ calls' = [calls EXCEPT ![c].pc = "done", ![c].how = r.how,
                                     ![c].result = {r.tag}]
    /\ UNCHANGED <<ingestVars, resp, document_tags, uiVars>>

CallIds == 1..MaxCalls

GocNext ==
    \/ \E c \in CallIds, raw \in TagNameInputs : GocBegin(c, raw)
    \/ \E c \in CallIds : GocLookup(c)
    \/ \E c \in CallIds : GocInsert(c)

GocSpec == Init /\ [][GocNext]_vars

\* ---------------------------------------------------------- list_documents
\* The creation order of the rows is their key order: keys grow with time.
RECURSIVE AscendingFrom(_)
AscendingFrom(S) ==
    IF S = {} THEN <<>>
    ELSE LET m == CHOOSE x \in S : \A y \in S : x <= y
         IN  <<m>> \o AscendingFrom(S \ {m})

\* The keys in ascending order (read off directly when no key is missing).
Ascending(S) ==
    IF S = 1..Cardinality(S)
    THEN [i \in 1..Cardinality(S) |-> i]
    ELSE AscendingFrom(S)

Reverse(s) == [i \in 1..Len(s) |-> s[Len(s) + 1 - i]]

Orderings(S) ==
    {s \in [1..Cardinality(S) -> S] : \A i, j \in 1..Cardinality(S) : i # j => s[i] # s[j]}

\* select(Document) carries no ORDER BY: the row order is the engine's choice.
\* Every order for a small table; insertion order or its reverse for a long one.
ScanOrders(S) ==
    IF Cardinality(S) <= MaxScan
    THEN Orderings(S)
    ELSE {Ascending(S), Reverse(Ascending(S))}

Min(a, b) == IF a <= b THEN a ELSE b

\* limit: int = 100 ({}: the client sent no limit)
EffectiveLimit(limit) == IF limit = {} THEN DefaultLimit ELSE CHOOSE l \in limit : TRUE

\* .offset(skip).limit(limit)
OffsetLimit(rows, skip, limit) ==
    SubSeq(rows, skip + 1, Min(skip + limit, Len(rows)))

ListDocuments(skip, limit) ==
    \E rows \in ScanOrders(DOMAIN docs) :
        /\ resp' = [op |-> "list", code |-> 200, skip |-> skip, limit |-> limit,
                    result |-> OffsetLimit(rows, skip, EffectiveLimit(limit))]
        /\ UNCHANGED <<ingestVars, tagVars, calls, uiVars>>

ListSizes == 0..MaxScan \cup {DefaultLimit, DefaultLimit + 1}

Skips == 0..MaxScan

Limits == {{}} \cup {{l} : l \in 0..MaxScan \cup {DefaultLimit, DefaultLimit + 1}}

StoredDoc(d) ==
    ProcessedRow(PendingRow(PlainName, MAX_FILE_SIZE, StoredName(d, PlainName)),
                 "hello world", 1)

\* A documents table of n processed documents, their files on disk.
ListInit ==
    \E n \in ListSizes :
        /\ docs = [d \in 1..n |-> StoredDoc(d)]
        /\ nextId = n + 1
        /\ files = [p \in {StoredName(d, PlainName) : d \in 1..n} |->
                       [size |-> MAX_FILE_SIZE,
                        owner |-> CHOOSE d \in 1..n : StoredName(d, PlainName) = p]]
        /\ jobs = <<>>
        /\ invoked = IF n = 0 THEN {} ELSE {MAX_FILE_SIZE}
        /\ resp = NoResp
        /\ tags = <<>>
        /\ nextTagId = 1
        /\ document_tags = {}
        /\ calls = <<>>
        /\ FrontendClosed

ListNext == \E skip \in Skips, limit \in Limits : ListDocuments(skip, limit)

ListSpec == ListInit /\ [][ListNext]_vars

\* ----------------------------------------------------------------- search
\* A content and a query are sequences of characters.
MaxQuery == 2

SearchChars == {"f", "O", "_", "%", "\\", "'", ";"}

Queries == UNION {[1..n -> SearchChars] : n \in 1..MaxQuery}

SearchContents ==
    { <<"f", "o">>,                 \* fo
      <<"F", "_">>,                 \* F_
      <<"o", "%">>,                 \* o%
      <<"'", ";">> }                \* ';

\* {"search_term": f"%{q}%"}
SearchTerm(q) == <<"%">> \o q \o <<"%">>

\* content ILIKE :search_term, the match of the database: % stands for any
\* run of characters, _ for any one character, \ takes the character after
\* it literally, and letters compare ignoring case.
RECURSIVE LikeMatch(_, _)
LikeMatch(p, s) ==
    IF p = <<>> THEN s = <<>>
    ELSE IF Head(p) = "%"
    THEN LikeMatch(Tail(p), s) \/ (s # <<>> /\ LikeMatch(p, Tail(s)))
    ELSE IF s = <<>> THEN FALSE
    ELSE IF Head(p) = "_" THEN LikeMatch(Tail(p), Tail(s))
    ELSE IF Head(p) = "\\"
    THEN /\ Len(p) >= 2
         /\ LowerTok(p[2]) = LowerTok(Head(s))
         /\ LikeMatch(SubSeq(p, 3, Len(p)), Tail(s))
    ELSE /\ LowerTok(Head(p)) = LowerTok(Head(s))
         /\ LikeMatch(Tail(p), Tail(s))

\* SELECT id, filename, content FROM documents WHERE content ILIKE :search_term
\* (the term is bound as a parameter: it is data, never query text; a NULL
\* content matches nothing).
SearchDocuments(q) ==
    /\ resp' = [op |-> "search", code |-> 200, q |-> q,
                result |-> {d \in DOMAIN docs :
                               /\ docs[d].content # NULL
                               /\ LikeMatch(SearchTerm(q), docs[d].content[1])}]
    /\ UNCHANGED <<ingestVars, tagVars, calls, uiVars>>

\* A row awaiting extraction, or a processed row of some content.
SearchRows(d) ==
    {PendingRow(PlainName, MAX_FILE_SIZE, StoredName(d, PlainName))}
        \cup {ProcessedRow(PendingRow(PlainName, MAX_FILE_SIZE, StoredName(d, PlainName)), c, 1) :
                c \in SearchContents}

\* A documents table of MaxDocs rows, one of them tagged.
SearchInit ==
    /\ docs \in {t \in [Ids -> UNION {SearchRows(d) : d \in Ids}] :
                    \A d \in Ids : t[d] \in SearchRows(d)}
    /\ nextId = MaxDocs + 1
    /\ files = [p \in {StoredName(d, PlainName) : d \in Ids} |->
                   [size |-> MAX_FILE_SIZE,
                    owner |-> CHOOSE d \in Ids : StoredName(d, PlainName) = p]]
    /\ jobs = <<>>
    /\ invoked = {MAX_FILE_SIZE}
    /\ resp = NoResp
    /\ tags = With(<<>>, 1, [name |-> <<"f", "o">>])
    /\ nextTagId = 2
    /\ document_tags = {<<1, 1>>}
    /\ calls = <<>>
    /\ FrontendClosed

SearchNext == \E q \in Queries : SearchDocuments(q)

SearchSpec == SearchInit /\ [][SearchNext]_vars

\* ------------------------------------------------- the documents page ("/")
\* App renders UploadForm and DocumentList together; their requests are the
\* entries of net, in the order they were sent, and the backend's answers
\* travel back in them.
MaxRequests == 4

View(dl) ==
    IF dl.loading THEN "loading"
    ELSE IF dl.error # NULL THEN "error"
    ELSE "list"

\* api.js getDocuments(): the request it sends, whatever it is called with.
getDocuments(selectedTag) == [path |-> "/documents", tag |-> NULL]

Request(kind, url, arg, origin) ==
    [kind |-> kind, url |-> url, arg |-> arg, origin |-> origin,
     state |-> "sent", code |-> 0, body |-> <<>>, settled |-> 0]

\* loadDocuments(): setLoading(true), then getDocuments(selectedTag).
LoadStartedClearsError(dl) == [dl EXCEPT !.loading = TRUE, !.error = NULL]

LoadStarted(dl) == [dl EXCEPT !.loading = TRUE]

ListRequest(dl, origin) ==
    Request("list", getDocuments(dl.selectedTag), dl.selectedTag, origin)

\* The dependencies of loadDocuments and of the effect that calls it.
LoadDepsTagOnly(a, dl) == <<dl.selectedTag>>

LoadDeps(a, dl) == <<dl.selectedTag, a.refreshTrigger>>

\* A render after a state change: the effect calls loadDocuments when its
\* dependencies changed.
Render(a, dl, n) ==
    /\ app' = a
    /\ IF LoadDeps(a, dl) # LoadDeps(app, documentList)
       THEN /\ documentList' = LoadStarted(dl)
            /\ net' = Append(n, ListRequest(dl, "effect"))
       ELSE /\ documentList' = dl
            /\ net' = n

Sent(n, kind) == {r \in DOMAIN n : n[r].kind = kind}

Settled(n) == {r \in DOMAIN n : n[r].settled # 0}

InFlight(n) == DOMAIN n \ Settled(n)

Serve(n, r, code, body) ==
    [n EXCEPT ![r] = [@ EXCEPT !.state = "served", !.code = code, !.body = body]]

Settle(n, r, state) ==
    [n EXCEPT ![r] = [@ EXCEPT !.state = state, !.settled = Cardinality(Settled(n)) + 1]]

\* Room for a request and for the reload that follows it.
CanSend(k) == Len(net) + k <= MaxRequests

\* ---- UploadForm
UploadFiles == {PlainName, <<"a", ".", "a">>}

\* onChange: setFile(e.target.files[0])
SelectFile(f) ==
    /\ ~uploadForm.uploading
    /\ uploadForm.file # Some(f)
    /\ uploadForm' = [uploadForm EXCEPT !.file = Some(f)]
    /\ UNCHANGED <<ingestVars, resp, tagVars, calls, app, documentList, documentDetail,
                   net, hashRun>>

\* handleSubmit up to the await of uploadDocument(file).
HandleSubmit ==
    /\ uploadForm.file # NULL
    /\ ~uploadForm.uploading
    /\ CanSend(2)
    /\ uploadForm' = [uploadForm EXCEPT !.uploading = TRUE, !.error = NULL,
                                        !.success = FALSE]
    /\ net' = Append(net, Request("upload", [path |-> "/documents", tag |-> NULL],
                                  uploadForm.file[1], "form"))
    /\ UNCHANGED <<ingestVars, resp, tagVars, calls, app, documentList, documentDetail,
                   hashRun>>

\* POST /documents, from validation to the answer: rejected, extraction
\* failed (the file removed, the row left as created) or processed.
ServeUpload(r) ==
    /\ r \in Sent(net, "upload")
    /\ net[r].state = "sent"
    /\ LET name == net[r].arg
           v == ValidateUpload(name, MAX_FILE_SIZE)
           stored == StoredName(nextId, PathName(name))
           row == PendingRow(name, MAX_FILE_SIZE, stored)
       IN  IF v.code # 200
           THEN /\ net' = Serve(net, r, v.code, <<>>)
                /\ UNCHANGED ingestVars
           ELSE /\ nextId <= MaxDocs
                /\ nextId' = nextId + 1
                /\ invoked' = invoked \cup {MAX_FILE_SIZE}
                /\ jobs' = jobs
                /\ \/ /\ docs' = With(docs, nextId, ProcessedRow(row, "hello world", 1))
                      /\ files' = With(files, stored,
                                       [size |-> MAX_FILE_SIZE, owner |-> nextId])
                      /\ net' = Serve(net, r, 200, <<nextId>>)
                   \/ /\ docs' = With(docs, nextId, row)
                      /\ files' = RemoveOnFailure(files, stored)
                      /\ net' = Serve(net, r, 400, <<>>)
    /\ UNCHANGED <<resp, tagVars, calls, app, uploadForm, documentList, documentDetail,
                   hashRun>>

\* handleUploadSuccess: setRefreshTrigger(prev => prev + 1)
HandleUploadSuccess(a) == [a EXCEPT !.refreshTrigger = @ + 1]

\* handleSubmit after the await: the response is ok, or uploadDocument threw.
UploadSettled(r) ==
    /\ r \in Sent(net, "upload")
    /\ net[r].state = "served"
    /\ IF net[r].code = 200
       THEN /\ uploadForm' = [uploadForm EXCEPT !.file = NULL, !.success = TRUE,
                                                !.uploading = FALSE]
            /\ Render(HandleUploadSuccess(app), documentList, Settle(net, r, "done"))
       ELSE /\ uploadForm' = [uploadForm EXCEPT !.error = Some("Failed to upload document"),
                                                !.uploading = FALSE]
            /\ Render(app, documentList, Settle(net, r, "failed"))
    /\ UNCHANGED <<ingestVars, resp, tagVars, calls, documentDetail, hashRun>>

\* fetch rejected: the request or its response was lost.
UploadLost(r) ==
    /\ r \in Sent(net, "upload")
    /\ net[r].settled = 0
    /\ uploadForm' = [uploadForm EXCEPT !.error = Some("Failed to upload document"),
                                        !.uploading = FALSE]
    /\ Render(app, documentList, Settle(net, r, "lost"))
    /\ UNCHANGED <<ingestVars, resp, tagVars, calls, documentDetail, hashRun>>

\* ---- DocumentList
\* The document as the list shows it: its id and its tags' names.
DocView(d) == [id |-> d, tags |-> {tags[p[2]].name : p \in {q \in document_tags : q[1] = d}}]

\* GET /documents?tag=: the documents carrying a tag of that name, or all.
\* The page holds at most MaxDocs documents, fewer than the default limit of
\* a request without skip and limit; the answer is kept as the set of its
\* rows, their order left out.
TagFiltered(tag) ==
    IF tag = NULL THEN DOMAIN docs
    ELSE {d \in DOMAIN docs : Canon(tag[1]) \in DocView(d).tags}

ServeList(r) ==
    /\ r \in Sent(net, "list")
    /\ net[r].state = "sent"
    /\ net' = Serve(net, r, 200, {DocView(d) : d \in TagFiltered(net[r].url.tag)})
    /\ UNCHANGED <<ingestVars, resp, tagVars, calls, app, uploadForm, documentList,
                   documentDetail, hashRun>>

\* handleDelete's finally, reached through the reload it awaited.
DeleteFinished(dl, r) == IF net[r].origin = "delete" THEN [dl EXCEPT !.deletingId = NULL] ELSE dl

\* loadDocuments after the await: setDocuments(data); finally setLoading(false).
ListSettled(r) ==
    /\ r \in Sent(net, "list")
    /\ net[r].state = "served"
    /\ Render(app,
              DeleteFinished([documentList EXCEPT !.documents = net[r].body,
                                                 !.loading = FALSE], r),
              Settle(net, r, "done"))
    /\ UNCHANGED <<ingestVars, resp, tagVars, calls, uploadForm, documentDetail, hashRun>>

\* catch: setError("Failed to load documents"); finally setLoading(false).
ListLost(r) ==
    /\ r \in Sent(net, "list")
    /\ net[r].settled = 0
    /\ Render(app,
              DeleteFinished([documentList EXCEPT !.error = Some("Failed to load documents"),
                                                 !.loading = FALSE], r),
              Settle(net, r, "lost"))
    /\ UNCHANGED <<ingestVars, resp, tagVars, calls, uploadForm, documentDetail, hashRun>>

\* handleTagClick: setSelectedTag(selectedTag === tagName ? null : tagName)
HandleTagClick(tagName) ==
    /\ View(documentList) = "list"
    /\ \E t \in documentList.availableTags : t.name = tagName
    /\ CanSend(1)
    /\ Render(app,
              [documentList EXCEPT !.selectedTag =
                  IF @ = Some(tagName) THEN NULL ELSE Some(tagName)],
              net)
    /\ UNCHANGED <<ingestVars, resp, tagVars, calls, uploadForm, documentDetail, hashRun>>

\* "Clear filter": setSelectedTag(null)
ClearFilter ==
    /\ View(documentList) = "list"
    /\ documentList.availableTags # {}
    /\ documentList.selectedTag # NULL
    /\ CanSend(1)
    /\ Render(app, [documentList EXCEPT !.selectedTag = NULL], net)
    /\ UNCHANGED <<ingestVars, resp, tagVars, calls, uploadForm, documentDetail, hashRun>>

Shown(dl) == {doc.id : doc \in dl.documents}

\* handleDelete up to the await of deleteDocument(docId), once confirmed.
HandleDelete(d) ==
    /\ View(documentList) = "list"
    /\ d \in Shown(documentList)
    /\ documentList.deletingId # Some(d)
    /\ CanSend(2)
    /\ documentList' = [documentList EXCEPT !.deletingId = Some(d)]
    /\ net' = Append(net, Request("delete", [path |-> "/documents", tag |-> NULL], d, "list"))
    /\ UNCHANGED <<ingestVars, resp, tagVars, calls, app, uploadForm, documentDetail, hashRun>>

\* DELETE /documents/{id}
ServeDelete(r) ==
    /\ r \in Sent(net, "delete")
    /\ net[r].state = "sent"
    /\ LET d == net[r].arg
       IN  IF d \notin DOMAIN docs
           THEN /\ net' = Serve(net, r, 404, <<>>)
                /\ UNCHANGED <<ingestVars, tagVars>>
           ELSE /\ docs' = Without(docs, d)
                /\ document_tags' = CascadeDocumentTags(document_tags, d)
                /\ files' = Without(files, docs[d].stored)
                /\ net' = Serve(net, r, 200, <<>>)
                /\ UNCHANGED <<nextId, jobs, invoked, tags, nextTagId>>
    /\ UNCHANGED <<resp, calls, app, uploadForm, documentList, documentDetail, hashRun>>

\* handleDelete after the await: any answer is taken for a success, and
\* loadDocuments() is awaited.
DeleteSettled(r) ==
    /\ r \in Sent(net, "delete")
    /\ net[r].origin = "list"
    /\ net[r].state = "served"
    /\ documentList' = LoadStarted(documentList)
    /\ net' = Append(Settle(net, r, "done"), ListRequest(documentList, "delete"))
    /\ UNCHANGED <<ingestVars, resp, tagVars, calls, app, uploadForm, documentDetail, hashRun>>

\* catch: setError("Failed to delete document"); finally setDeletingId(null).
DeleteLost(r) ==
    /\ r \in Sent(net, "delete")
    /\ net[r].origin = "list"
    /\ net[r].settled = 0
    /\ Render(app,
              [documentList EXCEPT !.error = Some("Failed to delete document"),
                                   !.deletingId = NULL],
              Settle(net, r, "lost"))
    /\ UNCHANGED <<ingestVars, resp, tagVars, calls, uploadForm, documentDetail, hashRun>>

\* The page shortly after it mounted over a backend holding one tagged
\* document and a second tag: loadTags has filled availableTags, and the
\* loadDocuments call of the mount effect is in flight.
PageInit ==
    /\ docs = With(<<>>, 1, StoredDoc(1))
    /\ nextId = 2
    /\ files = With(<<>>, StoredName(1, PlainName), [size |-> MAX_FILE_SIZE, owner |-> 1])
    /\ jobs = <<>>
    /\ invoked = {MAX_FILE_SIZE}
    /\ resp = NoResp
    /\ tags = <<[name |-> <<"f", "o">>], [name |-> <<"b">>]>>
    /\ nextTagId = 3
    /\ document_tags = {<<1, 1>>}
    /\ calls = <<>>
    /\ app = AppInit
    /\ uploadForm = UploadFormInit
    /\ documentList = [LoadStarted(DocumentListInit) EXCEPT !.availableTags = ListAll]
    /\ documentDetail = DocumentDetailInit
    /\ net = <<ListRequest(DocumentListInit, "effect")>>
    /\ hashRun = HashIdle

Requests == 1..MaxRequests

PageNext ==
    \/ \E f \in UploadFiles : SelectFile(f)
    \/ HandleSubmit
    \/ \E r \in Requests : ServeUpload(r)
    \/ \E r \in Requests : UploadSettled(r)
    \/ \E r \in Requests : UploadLost(r)
    \/ \E r \in Requests : ServeList(r)
    \/ \E r \in Requests : ListSettled(r)
    \/ \E r \in Requests : ListLost(r)
    \/ \E n \in TagNameInputs : HandleTagClick(n)
    \/ ClearFilter
    \/ \E d \in Ids : HandleDelete(d)
    \/ \E r \in Requests : ServeDelete(r)
    \/ \E r \in Requests : DeleteSettled(r)
    \/ \E r \in Requests : DeleteLost(r)

PageSpec == PageInit /\ [][PageNext]_vars

\* --------------------------------------- the detail page ("/documents/:id")
DetailView(dd) ==
    IF dd.loading THEN "loading"
    ELSE IF dd.error # NULL THEN "error"
    ELSE IF dd.document = NULL THEN "not found"
    ELSE "document"

DetailUrl(id) == [path |-> "/documents", tag |-> NULL, id |-> id]

\* loadDocument(): setLoading(true), then getDocument(id).
DetailLoadStarted(dd) == [dd EXCEPT !.loading = TRUE]

GetRequest(dd, origin) == Request("get", DetailUrl(dd.id), dd.id, origin)

\* The JSON body of an error answer: {"detail": ...}.
ErrorBody(code) == [detail |-> IF code = 404 THEN "Not found" ELSE "Bad request"]

\* GET /documents/{id}: the document with its tags, or 404 and an error body.
DocumentBody(d) ==
    [id |-> d, filename |-> docs[d].filename, status |-> docs[d].status,
     tags |-> {[id |-> p[2], name |-> tags[p[2]].name] : p \in {q \in document_tags : q[1] = d}}]

ServeGet(r) ==
    /\ r \in Sent(net, "get")
    /\ net[r].state = "sent"
    /\ IF net[r].arg \in DOMAIN docs
       THEN net' = Serve(net, r, 200, DocumentBody(net[r].arg))
       ELSE net' = Serve(net, r, 404, ErrorBody(404))
    /\ UNCHANGED <<ingestVars, resp, tagVars, calls, app, uploadForm, documentList,
                   documentDetail, hashRun>>

\* The finally of the handler whose reload this was.
TagHandlerFinished(dd, r) ==
    IF net[r].origin = "addTag" THEN [dd EXCEPT !.addingTag = FALSE] ELSE dd

\* loadDocument after the await: api.js getDocument returns response.json()
\* whatever the status; setDocument(data); finally setLoading(false).
GetSettled(r) ==
    /\ r \in Sent(net, "get")
    /\ net[r].state = "served"
    /\ documentDetail' =
           TagHandlerFinished([documentDetail EXCEPT !.document = Some(net[r].body),
                                                     !.loading = FALSE], r)
    /\ net' = Settle(net, r, "done")
    /\ UNCHANGED <<ingestVars, resp, tagVars, calls, app, uploadForm, documentList, hashRun>>

\* catch: setError('Failed to load document'); finally setLoading(false).
GetLost(r) ==
    /\ r \in Sent(net, "get")
    /\ net[r].settled = 0
    /\ documentDetail' =
           TagHandlerFinished([documentDetail EXCEPT !.error = Some("Failed to load document"),
                                                     !.loading = FALSE], r)
    /\ net' = Settle(net, r, "lost")
    /\ UNCHANGED <<ingestVars, resp, tagVars, calls, app, uploadForm, documentList, hashRun>>

\* handleAddTag up to the await of addTagsToDocument(id, [newTag.trim()]).
HandleAddTag(newTag) ==
    /\ DetailView(documentDetail) = "document"
    /\ Trim(newTag) # <<>>
    /\ ~documentDetail.addingTag
    /\ CanSend(2)
    /\ documentDetail' = [documentDetail EXCEPT !.addingTag = TRUE]
    /\ net' = Append(net, Request("attach", DetailUrl(documentDetail.id),
                                  <<Trim(newTag)>>, "detail"))
    /\ UNCHANGED <<ingestVars, resp, tagVars, calls, app, uploadForm, documentList, hashRun>>

\* POST /documents/{id}/tags
ServeAttach(r) ==
    /\ r \in Sent(net, "attach")
    /\ net[r].state = "sent"
    /\ LET d == net[r].url.id
           names == net[r].arg
       IN  IF d \notin DOMAIN docs
           THEN /\ net' = Serve(net, r, 404, ErrorBody(404))
                /\ UNCHANGED tagVars
           ELSE IF \E i \in 1..Len(names) : Trim(names[i]) = <<>>
           THEN /\ net' = Serve(net, r, 400, ErrorBody(400))
                /\ UNCHANGED tagVars
           ELSE LET a == AttachAll(tags, nextTagId, document_tags, d, names)
                IN  /\ tags' = a.tags
                    /\ nextTagId' = a.next
                    /\ document_tags' = a.dt
                    /\ net' = Serve(net, r, 200, <<>>)
    /\ UNCHANGED <<ingestVars, resp, calls, app, uploadForm, documentList, documentDetail,
                   hashRun>>

\* handleRemoveTag up to the await of removeTagFromDocument(id, tagId).
HandleRemoveTag(tagId) ==
    /\ DetailView(documentDetail) = "document"
    /\ "tags" \in DOMAIN documentDetail.document[1]
    /\ \E t \in documentDetail.document[1].tags : t.id = tagId
    /\ CanSend(2)
    /\ net' = Append(net, Request("detach", DetailUrl(documentDetail.id), tagId, "detail"))
    /\ UNCHANGED <<ingestVars, resp, tagVars, calls, app, uploadForm, documentList,
                   documentDetail, hashRun>>

\* DELETE /documents/{id}/tags/{tagId}
ServeDetach(r) ==
    /\ r \in Sent(net, "detach")
    /\ net[r].state = "sent"
    /\ LET p == <<net[r].url.id, net[r].arg>>
       IN  IF p \notin document_tags
           THEN /\ net' = Serve(net, r, 404, ErrorBody(404))
                /\ UNCHANGED tagVars
           ELSE /\ document_tags' = document_tags \ {p}
                /\ net' = Serve(net, r, 200, <<>>)
                /\ UNCHANGED <<tags, nextTagId>>
    /\ UNCHANGED <<ingestVars, resp, calls, app, uploadForm, documentList, documentDetail,
                   hashRun>>

\* handleAddTag / handleRemoveTag after the await: any answer is taken for a
\* success, and loadDocument() is awaited.
TagChangeSettled(r) ==
    /\ r \in Sent(net, "attach") \cup Sent(net, "detach")
    /\ net[r].state = "served"
    /\ documentDetail' = DetailLoadStarted(documentDetail)
    /\ net' = Append(Settle(net, r, "done"),
                     GetRequest(documentDetail,
                                IF net[r].kind = "attach" THEN "addTag" ELSE "removeTag"))
    /\ UNCHANGED <<ingestVars, resp, tagVars, calls, app, uploadForm, documentList, hashRun>>

\* catch: setError('Failed to add tag') / setError('Failed to remove tag').
TagChangeLost(r) ==
    /\ r \in Sent(net, "attach") \cup Sent(net, "detach")
    /\ net[r].settled = 0
    /\ documentDetail' =
           IF net[r].kind = "attach"
           THEN [documentDetail EXCEPT !.error = Some("Failed to add tag"),
                                       !.addingTag = FALSE]
           ELSE [documentDetail EXCEPT !.error = Some("Failed to remove tag")]
    /\ net' = Settle(net, r, "lost")
    /\ UNCHANGED <<ingestVars, resp, tagVars, calls, app, uploadForm, documentList, hashRun>>

\* The detail page of document id just mounted over a backend holding the
\* tagged document 1 only: the loadDocument call of its effect is in flight.
DetailInit ==
    \E id \in Ids :
        /\ docs = With(<<>>, 1, StoredDoc(1))
        /\ nextId = 2
        /\ files = With(<<>>, StoredName(1, PlainName), [size |-> MAX_FILE_SIZE, owner |-> 1])
        /\ jobs = <<>>
        /\ invoked = {MAX_FILE_SIZE}
        /\ resp = NoResp
        /\ tags = <<[name |-> <<"f", "o">>], [name |-> <<"b">>]>>
        /\ nextTagId = 3
        /\ document_tags = {<<1, 1>>}
        /\ calls = <<>>
        /\ app = AppInit
        /\ uploadForm = UploadFormInit
        /\ documentList = DocumentListInit
        /\ documentDetail = DetailLoadStarted([DocumentDetailInit EXCEPT !.id = id])
        /\ net = <<GetRequest([DocumentDetailInit EXCEPT !.id = id], "effect")>>
        /\ hashRun = HashIdle

DetailNext ==
    \/ \E r \in Requests : ServeGet(r)
    \/ \E r \in Requests : GetSettled(r)
    \/ \E r \in Requests : GetLost(r)
    \/ \E n \in TagNameInputs : HandleAddTag(n)
    \/ \E r \in Requests : ServeAttach(r)
    \/ \E t \in DOMAIN tags : HandleRemoveTag(t)
    \/ \E r \in Requests : ServeDetach(r)
    \/ \E r \in Requests : TagChangeSettled(r)
    \/ \E r \in Requests : TagChangeLost(r)

DetailSpec == DetailInit /\ [][DetailNext]_vars

\* -------------------------------------------------------------- tag colours
\* A string is the sequence of its UTF-16 code units. A 32-bit integer is
\* kept as its two 16-bit halves [hi, lo] in two's complement; a JavaScript
\* number that holds an integer as its sign and magnitude [neg, mag].
MaxNameLen == 3

Word == 65536

TAG_COLORS ==
    <<"Blue", "Purple", "Green", "Orange", "Pink", "Yellow", "Light blue", "Lime", "Red",
      "Lavender">>

Zero32 == [hi |-> 0, lo |-> 0]

\* hash << 5
ShiftLeft5(h) == [hi |-> (h.hi * 32 + h.lo \div 2048) % Word, lo |-> (h.lo * 32) % Word]

\* a - b and a + char, wrapped to 32 bits (the wrap of hash & hash commutes
\* with the subtraction and the addition before it)
Minus32(a, b) ==
    LET borrow == IF a.lo < b.lo THEN 1 ELSE 0
    IN  [hi |-> (a.hi + Word - b.hi - borrow) % Word, lo |-> (a.lo + Word - b.lo) % Word]

Plus32(a, char) == [hi |-> (a.hi + (a.lo + char) \div Word) % Word, lo |-> (a.lo + char) % Word]

\* hash = ((hash << 5) - hash) + char; hash = hash & hash
HashStep(h, char) == Plus32(Minus32(ShiftLeft5(h), h), char)

\* The number a 32-bit integer stands for: negative when its top bit is set.
Int32Number(h) ==
    IF h.hi >= Word \div 2
    THEN [neg |-> TRUE,
          mag |-> [hi |-> Word - h.hi - (IF h.lo = 0 THEN 0 ELSE 1), lo |-> (Word - h.lo) % Word]]
    ELSE [neg |-> FALSE, mag |-> h]

\* Math.abs on a number: the magnitude, 2^31 included.
MathAbsOf32BitInt(v) ==
    IF v.mag = [hi |-> Word \div 2, lo |-> 0] THEN v ELSE [v EXCEPT !.neg = FALSE]

MathAbs(v) == [v EXCEPT !.neg = FALSE]

\* hash % TAG_COLORS.length: the remainder takes the sign of the dividend.
Remainder(v, n) ==
    LET m == ((v.mag.hi % n) * (Word % n) + v.mag.lo) % n
    IN  IF v.neg THEN 0 - m ELSE m

\* TAG_COLORS[colorIndex]: undefined outside the array.
ColorAt(colorIndex) ==
    IF colorIndex \in 0..(Len(TAG_COLORS) - 1) THEN TAG_COLORS[colorIndex + 1] ELSE "undefined"

\* hashString(str), one step per loop iteration, then getTagColor's lookup;
\* before: the colour an earlier call gave for the same name.
HashStart(str, before) ==
    [str |-> str, i |-> 0, hash |-> Zero32, pc |-> "loop", result |-> [neg |-> FALSE, mag |-> Zero32],
     colorIndex |-> 0, color |-> "", before |-> before]

HashLoop ==
    /\ hashRun.pc = "loop"
    /\ hashRun.i < Len(hashRun.str)
    /\ hashRun' = [hashRun EXCEPT !.hash = HashStep(@, hashRun.str[hashRun.i + 1]),
                                  !.i = @ + 1]
    /\ UNCHANGED <<ingestVars, resp, tagVars, calls, app, uploadForm, documentList,
                   documentDetail, net>>

\* return Math.abs(hash)
hashString ==
    /\ hashRun.pc = "loop"
    /\ hashRun.i = Len(hashRun.str)
    /\ hashRun' = [hashRun EXCEPT !.result = MathAbs(Int32Number(hashRun.hash)),
                                  !.pc = "hashed"]
    /\ UNCHANGED <<ingestVars, resp, tagVars, calls, app, uploadForm, documentList,
                   documentDetail, net>>

getTagColor ==
    /\ hashRun.pc = "hashed"
    /\ LET colorIndex == Remainder(hashRun.result, Len(TAG_COLORS))
       IN  hashRun' = [hashRun EXCEPT !.colorIndex = colorIndex,
                                      !.color = ColorAt(colorIndex),
                                      !.pc = "coloured"]
    /\ UNCHANGED <<ingestVars, resp, tagVars, calls, app, uploadForm, documentList,
                   documentDetail, net>>

\* The next render calls getTagColor(tag.name) again.
ColourAgain ==
    /\ hashRun.pc = "coloured"
    /\ hashRun.before = NULL
    /\ hashRun' = HashStart(hashRun.str, Some(hashRun.color))
    /\ UNCHANGED <<ingestVars, resp, tagVars, calls, app, uploadForm, documentList,
                   documentDetail, net>>

HashChars == {102, 120, Word - 1}          \* "f", "x", U+FFFF

MinName == <<120, 102, 106, 102, 120, 116, 102>>    \* "xfjfxtf": the hash wraps to -2^31

NegName == <<122, 122, 122, 122, 122, 122>>         \* "zzzzzz": the hash wraps below zero

HashNames == UNION {[1..n -> HashChars] : n \in 0..MaxNameLen} \cup {MinName, NegName}

HashInit ==
    /\ docs = <<>>
    /\ nextId = 1
    /\ files = <<>>
    /\ jobs = <<>>
    /\ invoked = {}
    /\ resp = NoResp
    /\ tags = <<>>
    /\ nextTagId = 1
    /\ document_tags = {}
    /\ calls = <<>>
    /\ app = AppInit
    /\ uploadForm = UploadFormInit
    /\ documentList = DocumentListInit
    /\ documentDetail = DocumentDetailInit
    /\ net = <<>>
    /\ \E str \in HashNames : hashRun = HashStart(str, NULL)

HashNext == HashLoop \/ hashString \/ getTagColor \/ ColourAgain

HashSpec == HashInit /\ [][HashNext]_vars

\* =================================================================== claims

\* ---- C1
\* C1: a document's status changes only from pending to processed or from
\* pending to failed; a terminal status never changes again, no step sets a
\* status back to pending, and a new row starts pending under a fresh id.
C1_StatusTransitions ==
    [][ /\ \A d \in DOMAIN docs \cap DOMAIN docs' :
              docs'[d].status # docs[d].status
                  => /\ docs[d].status = "pending"
                     /\ docs'[d].status \in {"processed", "failed"}
        /\ \A d \in DOMAIN docs' \ DOMAIN docs :
              docs'[d].status = "pending" /\ d = nextId /\ nextId' > d ]_vars

\* C1 witness: a processed document whose upload was answered, with another
\* operation (a delete) answered after it.
C1_Witness ==
    /\ \E d \in DOMAIN docs : docs[d].status = "processed" /\ d \notin DOMAIN jobs
    /\ resp.op = "delete"

\* ---- C2
ExtractionFailed ==
    /\ resp.op = "upload"
    /\ resp.req # {}
    /\ resp.detail \in {"Failed to process PDF", "Internal Server Error"}

Answered(d) ==
    /\ d \notin DOMAIN jobs
    /\ resp.op = "upload"
    /\ resp.req = {d}
    /\ \/ /\ resp.code = 200
          /\ resp.doc = {d}
          /\ d \in DOMAIN docs
          /\ docs[d].status = "processed"
          /\ docs[d].page_count # NULL
          /\ docs[d].content # NULL
       \/ /\ resp.code \in {400, 404, 500}
          /\ StoredName(d, PathName(resp.name)) \notin DOMAIN files

RawTraversal(name) ==
    \/ Contains(name, <<".", ".">>)
    \/ Contains(name, <<"/">>)
    \/ Contains(name, <<"\\">>)

BaseTraversal(name) == RawTraversal(PathName(name))

\* C4 as stated: a '..' or a separator anywhere in the user-supplied name
\* gets a 400, and no row is created for such a name.
C4_Original ==
    /\ \A d \in DOMAIN docs : ~RawTraversal(docs[d].filename)
    /\ (resp.op = "upload" /\ RawTraversal(resp.name))
           => resp.code = 400 /\ resp.req = {}

\* C4 amended: the handler first reduces the name to its base name (the last
\* path component); an upload whose base name contains '..', '/' or '\' is
\* answered 400, writes no file, creates no row and submits no extraction.
C4_BaseNameRejected ==
    /\ [](\A d \in DOMAIN docs : ~BaseTraversal(docs[d].filename))
    /\ []((resp.op = "upload" /\ BaseTraversal(resp.name))
             => resp.code = 400 /\ resp.req = {})
    /\ [][ (resp' # resp /\ resp'.op = "upload" /\ BaseTraversal(resp'.name))
             => /\ docs' = docs
                /\ files' = files
                /\ jobs' = jobs ]_vars

\* C4 witness: a name with '..' in its base name answered "Invalid filename"
\* while a document and its file exist.
C4_Witness ==
    /\ resp.op = "upload"
    /\ BaseTraversal(resp.name)
    /\ resp.detail = "Invalid filename"
    /\ DOMAIN docs # {}
    /\ DOMAIN files # {}

\* ---- C5
\* C5 as stated: every upload over the size ceiling is answered 413.
C5_Original ==
    (resp.op = "upload" /\ resp.size > MAX_FILE_SIZE) => resp.code = 413

\* C5 amended: every upload over the size ceiling is rejected before any
\* extraction, with 413 when its filename passes the filename checks and
\* with 400 otherwise (those checks come first); the extraction collaborator
\* is never invoked on, and no job is ever queued for, such an upload.
C5_OversizeRejected ==
    /\ (resp.op = "upload" /\ resp.size > MAX_FILE_SIZE)
           => /\ resp.req = {}
              /\ resp.doc = {}
              /\ resp.code = (IF ValidateUpload(resp.name, 0).code = 200
                              THEN 413 ELSE 400)
    /\ \A s \in invoked : s <= MAX_FILE_SIZE
    /\ \A d \in DOMAIN jobs : jobs[d].size <= MAX_FILE_SIZE
    /\ \A d \in DOMAIN docs : docs[d].file_size <= MAX_FILE_SIZE

\* C5 witness: an oversize upload answered 413 while the collaborator has
\* been invoked for another upload.
C5_Witness ==
    /\ resp.op = "upload"
    /\ resp.size > MAX_FILE_SIZE
    /\ resp.code = 413
    /\ invoked # {}

TagsOf(d) == {t \in DOMAIN tags : <<d, t>> \in document_tags}

SameIgnoringCase(n, m) == Lower(Trim(n)) = Lower(Trim(m))

\* C6: attaching names that differ only in letter case is idempotent: no
\* document carries two tags whose names are equal ignoring case, and after a
\* successful attach each requested name has exactly one row in the tag
\* table and exactly one tag on the document.
C6_AttachIdempotent ==
    /\ \A d \in DOMAIN docs : \A t, u \in TagsOf(d) :
          SameIgnoringCase(tags[t].name, tags[u].name) => t = u
    /\ (resp.op = "attach" /\ resp.code = 200)
          => \A d \in resp.doc : \A i \in 1..Len(resp.names) :
                /\ Cardinality({t \in DOMAIN tags :
                                  SameIgnoringCase(tags[t].name, resp.names[i])}) = 1
                /\ Cardinality({t \in TagsOf(d) :
                                  SameIgnoringCase(tags[t].name, resp.names[i])}) = 1

\* C6 witness: one attach with two spellings of a name, answered 200, on a
\* document that carries a single tag.
C6_Witness ==
    /\ resp.op = "attach"
    /\ resp.code = 200
    /\ Len(resp.names) = 2
    /\ resp.names[1] # resp.names[2]
    /\ SameIgnoringCase(resp.names[1], resp.names[2])
    /\ \A d \in resp.doc : Cardinality(TagsOf(d)) = 1

\* ---- C7
Done(c) == c \in DOMAIN calls /\ calls[c].pc = "done"

\* C7: in every interleaving of getOrCreate calls the tag table holds at
\* most one row per name ignoring case, every finished call returns one
\* existing tag of its name, and calls with names equal ignoring case return
\* the same tag.
C7_NoDuplicateTags ==
    /\ \A t, u \in DOMAIN tags :
          SameIgnoringCase(tags[t].name, tags[u].name) => t = u
    /\ \A c \in DOMAIN calls :
          Done(c) => /\ Cardinality(calls[c].result) = 1
                     /\ \A t \in calls[c].result :
                           /\ t \in DOMAIN tags
                           /\ SameIgnoringCase(tags[t].name, calls[c].raw)
    /\ \A c, e \in DOMAIN calls :
          (Done(c) /\ Done(e) /\ SameIgnoringCase(calls[c].raw, calls[e].raw))
              => calls[c].result = calls[e].result

\* C7 witness: two calls with different spellings raced past the lookup; one
\* inserted, the other hit the uniqueness conflict.
C7_Witness ==
    \E c, e \in DOMAIN calls :
        /\ Done(c) /\ Done(e)
        /\ calls[c].raw # calls[e].raw
        /\ SameIgnoringCase(calls[c].raw, calls[e].raw)
        /\ calls[c].how = "inserted"
        /\ calls[e].how = "conflict"

\* ---- C8
\* C8: a delete removes exactly the deleted document's associations: the
\* other documents' associations, the tag table and listAll() are unchanged,
\* also when the document was the last one using a tag.
C8_DeleteFrame ==
    [][ \A d \in DOMAIN docs :
          d \notin DOMAIN docs'
              => /\ document_tags' = {p \in document_tags : p[1] # d}
                 /\ tags' = tags
                 /\ ListAll' = ListAll ]_vars

\* C8 witness: a delete was answered 200, a tag is left with no document,
\* and another document still carries a tag.
C8_Witness ==
    /\ resp.op = "delete"
    /\ resp.code = 200
    /\ \E t \in DOMAIN tags : \A p \in document_tags : p[2] # t
    /\ \E e \in DOMAIN docs : TagsOf(e) # {}
    /\ Cardinality(ListAll) = 2

\* ---- C10
\* The claim names a hard ceiling without a value; it can be no lower than
\* the default limit, which is taken here.
ClaimedCeiling == DefaultLimit

CreatedDescending == Reverse(Ascending(DOMAIN docs))

\* C10 as stated: list(skip, limit) is the window skip .. skip+min(limit,
\* ceiling)-1 of the documents sorted by creation time descending, never
\* longer than the ceiling, with a limit of 100 when the client sends none.
C10_Original ==
    resp.op = "list"
        => /\ resp.result =
                  SubSeq(CreatedDescending, resp.skip + 1,
                         Min(resp.skip + Min(EffectiveLimit(resp.limit), ClaimedCeiling),
                             Len(CreatedDescending)))
           /\ Len(resp.result) <= ClaimedCeiling

\* ---- C11
SearchFrame == UNCHANGED <<docs, nextId, files, tags, nextTagId, document_tags>>

SearchResultsContainQuery ==
    resp.op = "search"
        => /\ resp.code = 200
           /\ \A d \in resp.result :
                  /\ d \in DOMAIN docs
                  /\ docs[d].content # NULL
                  /\ Contains(Lower(docs[d].content[1]), Lower(resp.q))

\* C11 as stated: search(query) leaves the documents, tags and associations
\* as they were, answers with a result list and never an error, and every
\* returned document's content contains the query as a case-insensitive
\* substring; for every query, SQL syntax included.
C11_Original ==
    /\ [][SearchFrame]_vars
    /\ [] SearchResultsContainQuery

\* ---- C12
Loads == Sent(net, "list")

\* The request of a load names the tag that was selected when it started.
LoadsCarrySelection == \A r \in Loads : net[r].url.tag = net[r].arg

\* The documents a load brought back carry the tag selected when it started.
LoadedCarrySelectedTag ==
    \A r \in Loads :
        (net[r].state = "done" /\ net[r].arg # NULL)
            => \A doc \in net[r].body : Canon(net[r].arg[1]) \in doc.tags

\* C12 as stated: with a tag selected the list request carries that tag as
\* its filter, so the documents then displayed all carry a tag of that name;
\* with the selection cleared the unfiltered list is requested.
C12_Original == LoadsCarrySelection /\ LoadedCarrySelectedTag

\* ---- C13
UploadSettling(r) == r \in Sent(net, "upload") /\ net[r].settled = 0 /\ net'[r].settled # 0

\* uploadDocument resolved: the backend's answer is ok and it arrived.
UploadSucceeding(r) ==
    UploadSettling(r) /\ net[r].state = "served" /\ net[r].code = 200 /\ net'[r].state # "lost"

LoadIssued ==
    /\ Len(net') = Len(net) + 1
    /\ net'[Len(net')].kind = "list"
    /\ net'[Len(net')].state = "sent"
    /\ documentList'.loading

\* C13: a successful upload increments refreshTrigger by exactly one, a
\* failed upload leaves it unchanged, refreshTrigger changes in no other
\* way, and each increment makes DocumentList issue a new load of the list.
C13_UploadRefreshes ==
    [][ /\ \A r \in DOMAIN net :
              UploadSettling(r)
                  => app'.refreshTrigger =
                         app.refreshTrigger + (IF UploadSucceeding(r) THEN 1 ELSE 0)
        /\ app'.refreshTrigger # app.refreshTrigger
              => /\ \E r \in DOMAIN net : UploadSucceeding(r)
                 /\ LoadIssued ]_vars

\* C13 witness: after a failed upload, a second upload succeeded, the trigger
\* went to one and a load was issued after that upload.
C13_Witness ==
    /\ app.refreshTrigger = 1
    /\ uploadForm.success
    /\ \E f, r, l \in DOMAIN net :
          /\ f < r /\ r < l
          /\ net[f].kind = "upload" /\ net[f].state = "failed"
          /\ net[r].kind = "upload" /\ net[r].state = "done"
          /\ net[l].kind = "list" /\ net[l].origin = "effect"

\* ---- C15
LatestLoad == CHOOSE r \in Loads : \A q \in Loads : q <= r

\* C15 as stated: once every load has settled, the documents shown are the
\* response to the most recently started load, whatever the arrival order.
C15_Original ==
    (Loads \cap InFlight(net) = {} /\ net[LatestLoad].state = "done")
        => documentList.documents = net[LatestLoad].body

\* ---- C16
\* C16: once DocumentList's error is set no step clears it, and the list is
\* not shown again: the error view (or the loading view of a reload) is.
C16_ErrorNeverCleared ==
    [][ documentList.error # NULL
            => documentList'.error # NULL /\ View(documentList') # "list" ]_vars

\* C16 witness: a load failed, a later load succeeded and delivered its
\* documents, and the error view is still what is shown.
C16_Witness ==
    /\ View(documentList) = "error"
    /\ documentList.documents # {}
    /\ \E f, r \in Loads :
          /\ net[f].state = "lost"
          /\ net[r].state = "done"
          /\ net[f].settled < net[r].settled

\* ---- C14
Gets == Sent(net, "get")

LatestGet == CHOOSE r \in Gets : \A q \in Gets : q <= r

ErrorDisplay(dd) == DetailView(dd) \in {"error", "not found"}

\* C14 as stated: when the backend answers the get-by-id request with 404,
\* DocumentDetail ends in an error display ('Failed to load document' or
\* 'Document not found') and never renders the 404 body as a document.
C14_Original ==
    /\ (DetailView(documentDetail) = "document")
           => "detail" \notin DOMAIN documentDetail.document[1]
    /\ (InFlight(net) = {} /\ net[LatestGet].state = "done" /\ net[LatestGet].code = 404)
           => ErrorDisplay(documentDetail)

\* ---- C17
MostNegative == [hi |-> Word \div 2, lo |-> 0]

\* C17: hashString returns a non-negative integer, the magnitude of the
\* wrapped 32-bit hash; getTagColor returns one of the 10 entries of
\* TAG_COLORS (index in 0..9, never undefined), the empty name and a name
\* whose hash wraps to -2^31 included; a second call on the same name gives
\* the same colour.
C17_ColourDefined ==
    /\ hashRun.pc \in {"hashed", "coloured"}
           => /\ ~hashRun.result.neg
              /\ hashRun.result.mag = Int32Number(hashRun.hash).mag
    /\ hashRun.pc = "coloured"
           => /\ hashRun.colorIndex \in 0..9
              /\ \E k \in 1..10 : hashRun.color = TAG_COLORS[k]
              /\ hashRun.before # NULL => hashRun.color = hashRun.before[1]

\* C17 witness: the second call on a name whose hash wrapped to -2^31 has
\* returned its colour.
C17_Witness ==
    /\ hashRun.pc = "coloured"
    /\ hashRun.hash = MostNegative
    /\ hashRun.before # NULL

====
